---- MODULE Spec2Model ----
(***************************************************************************)
(* Local-first write-ahead sync queue of the spring-rate calculator:       *)
(* HybridBackend of src/lib/storageAdapter.ts, hosted in a browser tab.    *)
(*                                                                         *)
(* One action per handler: the four mutating calls, the public trigger,    *)
(* the 'online' listener, the debounce-timer callback (which runs          *)
(* flushQueue up to its await), the continuation of flushQueue after the   *)
(* fetch settles, and the construction of a new engine over the persisted  *)
(* queue.  The variables listed as history record which append produced an   *)
(* entry and what became of it; they never feed back into program state.   *)
(***************************************************************************)
EXTENDS Integers, Sequences, FiniteSets, TLC

\* ---------------------------------------------------------------- bounds
\* number of operations appended over a run
MaxOps == 3
\* number of requests whose response is outstanding at once
MaxFlights == 2
\* largest value Date.now() takes
MaxNow == 2
\* number of localStorage.setItem calls that throw over a run
MaxWriteFailures == 1
\* the same two limits for the runs of ApiSpec, which vary the kind of every
\* operation
MaxApiOps == 2
MaxApiFlights == 1

\* ---------------------------------------------------------------- values
\* JavaScript's undefined, for optional string properties
Undefined == "undefined"
\* status.lastSyncedAt when no flush has succeeded (the property is undefined)
NoTime == 0

QUEUE_STORAGE_KEY == "spring-rate-sync-queue"

\* optional properties of SpringCalcRecord
OptionalKeys == {"purchaseUrl", "notes"}

\* the record the callers save: handleSave leaves an empty purchaseUrl or notes
\* undefined
Records ==
  { [id |-> "id-1", createdAt |-> 1, manufacturer |-> "Acme", partNumber |-> "P1",
     purchaseUrl |-> Undefined, notes |-> "front",
     units |-> "mm", d |-> 1, D |-> 10, n |-> 6, Davg |-> 9, k |-> 2] }

\* ids passed to deleteCalculation
DeleteIds == {"id-1"}
\* id lists passed to bulkDeleteCalculations
BulkIdLists == { <<>>, <<"id-1", "id-2">> }

\* the records, ids and id lists the callers of the local store pass: several
\* ids, and two values of createdAt for each
StoreIds == {"id-1", "id-2", "id-3"}
StoreTimes == {100, 101}
StoreRecords ==
  { [r EXCEPT !.id = i, !.createdAt = t] :
      r \in Records, i \in StoreIds, t \in StoreTimes }
StoreIdLists ==
  {<<>>} \cup {<<i>> : i \in StoreIds} \cup {<<i, j>> : i, j \in StoreIds}

\* SyncOperation, one constructor per tag
AddOp(record) == [type |-> "add", record |-> record]
DeleteOp(id) == [type |-> "delete", id |-> id]
BulkDeleteOp(ids) == [type |-> "bulkDelete", ids |-> ids]
ClearOp == [type |-> "clear"]

\* ------------------------------------------------------------------ JSON
\* JSON.stringify of a record: a property whose value is undefined is left out
StringifyRecord(r) ==
  [key \in (DOMAIN r) \ {o \in OptionalKeys \cap DOMAIN r : r[o] = Undefined} |-> r[key]]

StringifyOp(op) ==
  IF op.type = "add" THEN [type |-> "add", record |-> StringifyRecord(op.record)]
  ELSE op

\* JSON.stringify(operations): the text stored under QUEUE_STORAGE_KEY
StringifyOps(ops) == [i \in 1..Len(ops) |-> StringifyOp(ops[i])]

\* the values window.localStorage holds under QUEUE_STORAGE_KEY
MissingItem == [kind |-> "missing", items |-> <<>>]
ArrayItem(ops) == [kind |-> "array", items |-> StringifyOps(ops)]
\* the empty string
EmptyItem == [kind |-> "empty", items |-> <<>>]
\* text that JSON.parse rejects
InvalidItem == [kind |-> "invalid", items |-> <<>>]
\* the JSON text of an object that is not an array but has a length and an
\* element: {"0": {"type": "clear"}, "length": 1}
ArrayLikeItem == [kind |-> "value", items |-> <<ClearOp>>]
\* a storage whose getItem throws
UnreadableItem == [kind |-> "throws", items |-> <<>>]

\* the tags of SyncOperation
OperationTags == {"add", "delete", "bulkDelete", "clear"}
\* the JSON text of an array whose entry carries a tag SyncOperation lacks:
\* [{"type": "merge"}]
ForeignItem == [kind |-> "array", items |-> <<[type |-> "merge"]>>]

\* what a browser profile may hold under the key before the engine first runs
PersistedValues ==
  {MissingItem, EmptyItem, InvalidItem, ArrayLikeItem, UnreadableItem,
   ForeignItem}

\* JSON.parse of the stored text
ParseItems(raw) == raw.items

\* reading property key of a parsed or live record
Get(r, key) == IF key \in DOMAIN r THEN r[key] ELSE Undefined

\* two records a reader cannot tell apart
SameRecord(r1, r2) ==
  /\ \A key \in OptionalKeys : Get(r1, key) = Get(r2, key)
  /\ (DOMAIN r1) \ OptionalKeys = (DOMAIN r2) \ OptionalKeys
  /\ \A key \in (DOMAIN r1) \ OptionalKeys : r1[key] = r2[key]

SameOp(o1, o2) ==
  /\ o1.type = o2.type
  /\ IF o1.type = "add" THEN SameRecord(o1.record, o2.record) ELSE o1 = o2

\* two logs with the same entries in the same order
SameEntries(q1, q2) ==
  /\ Len(q1) = Len(q2)
  /\ \A i \in 1..Len(q1) : SameOp(q1[i], q2[i])

\* ------------------------------------------------------------ persistence
canUseWindow == TRUE

\* the Array.isArray test inverted
readQueuedOperationsInverted(raw) ==
  IF ~canUseWindow THEN <<>>
  ELSE IF raw.kind = "throws" THEN <<>>
  ELSE IF raw.kind \in {"missing", "empty"} THEN <<>>
  ELSE IF raw.kind = "invalid" THEN <<>>
  ELSE IF raw.kind = "array" THEN <<>>
  ELSE ParseItems(raw)

\* the Array.isArray test left out
readQueuedOperationsAnyValue(raw) ==
  IF ~canUseWindow THEN <<>>
  ELSE IF raw.kind = "throws" THEN <<>>
  ELSE IF raw.kind \in {"missing", "empty"} THEN <<>>
  ELSE IF raw.kind = "invalid" THEN <<>>
  ELSE ParseItems(raw)

\* getItem throwing and JSON.parse throwing both end in the catch; a null or
\* empty text and a parsed value that is not an array return [] directly
readQueuedOperations(raw) ==
  IF ~canUseWindow THEN <<>>
  ELSE IF raw.kind = "throws" THEN <<>>
  ELSE IF raw.kind \in {"missing", "empty"} THEN <<>>
  ELSE IF raw.kind = "invalid" THEN <<>>
  ELSE IF raw.kind # "array" THEN <<>>
  ELSE ParseItems(raw)

\* an emptied queue is not written back
writeQueuedOperationsSkipEmpty(operations, old, setItemOk) ==
  IF ~canUseWindow THEN old
  ELSE IF setItemOk /\ Len(operations) > 0 THEN ArrayItem(operations)
  ELSE old

\* setItem either stores the text or throws (quota); the throw is swallowed
writeQueuedOperations(operations, old, setItemOk) ==
  IF ~canUseWindow THEN old
  ELSE IF setItemOk THEN ArrayItem(operations)
  ELSE old

\* ------------------------------------------------------------------ state
VARIABLES
  queue,       \* this.queue
  status,      \* this.status
  syncTimer,   \* this.syncTimer # null
  flights,     \* fetch calls of flushQueue whose promise has not settled
  stored,      \* localStorage[QUEUE_STORAGE_KEY]
  local,       \* records held by the local backend
  online,      \* window.navigator.onLine
  now,         \* the latest value Date.now() returned
  queueIds,    \* history: append number of each entry of queue
  storedIds,   \* history: append number of each entry of stored
  appended,    \* history: the number of operations appended so far
  acked,       \* history: append numbers carried by a request that succeeded
  lost,        \* history: append numbers spliced off by a request not carrying them
  dropped,     \* history: append numbers in memory only when the tab was reloaded
  lastWrite,   \* history: outcome of the most recent setItem of this engine
  writeFailures, \* history: number of setItem calls that threw
  timeouts,    \* callbacks window.setTimeout holds, each with the number of
               \* appends made before it was scheduled
  lastCall,    \* how the caller's latest mutating call settled
  enabled,     \* isCloudSyncEnabled: db.ts constructed a HybridBackend
  listeners,   \* this.listeners, in insertion order
  received,    \* the status each listener was last called with while subscribed
  notified,    \* the listeners the latest notify() called, in call order
  peerQueue,   \* this.queue of the HybridBackend of a second tab
  peerIds,     \* history: append number of each entry of peerQueue
  listed       \* what the caller's latest listCalculations resolved with

vars == <<queue, status, syncTimer, flights, stored, local, online, now,
          queueIds, storedIds, appended, acked, lost, dropped, lastWrite,
          writeFailures, timeouts, lastCall, enabled, listeners, received,
          notified, peerQueue, peerIds, listed>>

\* the listener set and what its members were told
subscribers == <<listeners, received, notified>>

\* what no method of this engine touches: the second tab's engine and the
\* result of the caller's latest read
outside == <<peerQueue, peerIds, listed>>


\* ---------------------------------------------------------------- history
\* the set of values of a sequence
Range(s) == {s[i] : i \in 1..Len(s)}

\* append numbers issued after the first count appends
IdsAfter(count) == [i \in 1..(appended - count) |-> count + i]

\* -------------------------------------------------------------- listeners
\* the functions callers pass to subscribeSyncStatus
Listeners == {"a", "b"}
\* what a listener that has not been called holds
NoStatus == [state |-> "none"]

\* what a listener does when notify() calls it: nothing, or a call of the
\* unsubscribe closure of a listener, or of subscribeSyncStatus with one
NoReaction == [by |-> "none", does |-> "nothing", whom |-> "none"]
Reactions(ls) ==
  {NoReaction} \cup
  [by : Range(ls), does : {"unsubscribe", "subscribe"}, whom : Listeners]

\* Set.prototype.delete and Set.prototype.add on the insertion-ordered entries
SetDelete(ls, l) == SelectSeq(ls, LAMBDA x : x # l)
SetAdd(ls, l) == IF l \in Range(ls) THEN ls ELSE Append(ls, l)

\* the for-of loop of notify() from entry i on: the iterator reads the live
\* Set, so an entry deleted before its turn is passed over and an entry added
\* during the loop is reached at the end
RECURSIVE notifyFrom(_, _, _, _)
notifyFrom(ls, i, calls, reaction) ==
  IF i > Len(ls) THEN [listeners |-> ls, calls |-> calls]
  ELSE LET l == ls[i]
           acts == reaction.by = l
           after == IF ~acts THEN ls
                    ELSE IF reaction.does = "unsubscribe"
                    THEN SetDelete(ls, reaction.whom)
                    ELSE SetAdd(ls, reaction.whom)
           visited == Range(SubSeq(ls, 1, i))
           next == IF acts /\ reaction.does = "unsubscribe"
                        /\ reaction.whom \in visited
                   THEN i
                   ELSE i + 1
       IN notifyFrom(after, next, Append(calls, l), reaction)

\* the loop started at the second entry
notifySkipsFirst(ls, reaction) == notifyFrom(ls, 2, <<>>, reaction)

\* notify(): the listener set and the calls made once the loop has ended
notify(ls, reaction) == notifyFrom(ls, 1, <<>>, reaction)

\* setStatus(next): assign, then notify; a listener still subscribed after
\* the loop was called with next, by the loop or by the subscribeSyncStatus
\* that added it
setStatus(next) ==
  /\ status' = next
  /\ \E reaction \in Reactions(listeners) :
       LET done == notify(listeners, reaction) IN
       /\ listeners' = done.listeners
       /\ notified' = done.calls
       /\ received' = [l \in Listeners |->
                         IF l \notin Range(done.listeners) THEN NoStatus
                         ELSE IF l \in Range(done.calls) \/ l \notin Range(listeners)
                         THEN next
                         ELSE received[l]]

\* ------------------------------------------------------------ constructor
\* lastError of a status that carries none
NoError == Undefined

\* the status of an empty log whatever was hydrated
InitialStatusIdle(q) ==
  [state |-> "idle",
   pending |-> 0,
   lastSyncedAt |-> NoTime,
   lastError |-> NoError]

\* this.status as the constructor builds it from the hydrated queue
InitialStatus(q) ==
  [state |-> IF Len(q) > 0 THEN "queued" ELSE "idle",
   pending |-> Len(q),
   lastSyncedAt |-> NoTime,
   lastError |-> NoError]

isOnline == IF ~canUseWindow THEN FALSE ELSE online

\* triggerBackgroundSync: the value of (this.syncTimer # null) after the call
triggerBackgroundSync(timer, q, onl) ==
  IF timer THEN timer
  ELSE IF Len(q) = 0 \/ ~onl THEN timer
  ELSE TRUE

\* the test of isOnline left out
timeoutsAfterTriggerAnyConnectivity(timer, q, onl, pending, count) ==
  IF timer THEN pending
  ELSE IF Len(q) = 0 THEN pending
  ELSE Append(pending, count)

\* the pending timeouts after triggerBackgroundSync: line 175 schedules one
\* more; count is the number of appends made before the call
timeoutsAfterTrigger(timer, q, onl, pending, count) ==
  IF timer THEN pending
  ELSE IF Len(q) = 0 \/ ~onl THEN pending
  ELSE Append(pending, count)

\* a first installation: nothing persisted, no record saved
Init ==
  /\ stored = MissingItem
  /\ storedIds = <<>>
  /\ queue = readQueuedOperations(stored)
  /\ queueIds = storedIds
  /\ status = InitialStatus(queue)
  /\ online \in BOOLEAN
  /\ syncTimer = triggerBackgroundSync(FALSE, queue, online)
  /\ flights = <<>>
  /\ local = {}
  /\ now = 1
  /\ appended = 0
  /\ acked = {}
  /\ lost = {}
  /\ lastWrite = "none"
  /\ dropped = {}
  /\ writeFailures = 0
  /\ timeouts = timeoutsAfterTrigger(FALSE, queue, online, <<>>, 0)
  /\ lastCall = "none"
  /\ enabled = TRUE
  /\ listeners = <<>>
  /\ received = [l \in Listeners |-> NoStatus]
  /\ notified = <<>>
  /\ peerQueue = <<>>
  /\ peerIds = <<>>
  /\ listed = <<>>

\* ---------------------------------------------------------------- enqueue
\* a profile whose stored value was not written by this engine; its entries
\* carry append number 0
HydrateInit ==
  /\ stored \in PersistedValues
  /\ storedIds = [k \in 1..Len(readQueuedOperations(stored)) |-> 0]
  /\ queue = readQueuedOperations(stored)
  /\ queueIds = storedIds
  /\ status = InitialStatus(queue)
  /\ online \in BOOLEAN
  /\ syncTimer = triggerBackgroundSync(FALSE, queue, online)
  /\ flights = <<>>
  /\ local = {}
  /\ now = 1
  /\ appended = 0
  /\ acked = {}
  /\ lost = {}
  /\ lastWrite = "none"
  /\ dropped = {}
  /\ writeFailures = 0
  /\ timeouts = timeoutsAfterTrigger(FALSE, queue, online, <<>>, 0)
  /\ lastCall = "none"
  /\ enabled = TRUE
  /\ listeners = <<>>
  /\ received = [l \in Listeners |-> NoStatus]
  /\ notified = <<>>
  /\ peerQueue = <<>>
  /\ peerIds = <<>>
  /\ listed = <<>>

\* pending taken from the previous status instead of the extended queue
EnqueueStatusStalePending(q, st) ==
  [state |-> "queued",
   pending |-> st.pending,
   lastSyncedAt |-> st.lastSyncedAt,
   lastError |-> NoError]

\* lastError copied from the previous status
EnqueueStatusKeepsError(q, st) ==
  [state |-> "queued",
   pending |-> Len(q),
   lastSyncedAt |-> st.lastSyncedAt,
   lastError |-> st.lastError]

\* lastSyncedAt not copied from the previous status
EnqueueStatusDropsSyncedAt(q, st) ==
  [state |-> "queued",
   pending |-> Len(q),
   lastSyncedAt |-> NoTime,
   lastError |-> NoError]

\* the status enqueue publishes for the queue q it has just extended
EnqueueStatus(q, st) ==
  [state |-> "queued",
   pending |-> Len(q),
   lastSyncedAt |-> st.lastSyncedAt,
   lastError |-> NoError]

\* history of one setItem call made with the queue ids
RecordWrite(ids, setItemOk) ==
  /\ setItemOk \/ writeFailures < MaxWriteFailures
  /\ storedIds' = IF setItemOk THEN ids ELSE storedIds
  /\ lastWrite' = IF setItemOk THEN "ok" ELSE "failed"
  /\ writeFailures' = IF setItemOk THEN writeFailures ELSE writeFailures + 1

\* enqueue(operation): push, persist, publish, trigger
enqueue(operation, setItemOk) ==
  /\ appended < MaxOps
  /\ queue' = Append(queue, operation)
  /\ stored' = writeQueuedOperations(queue', stored, setItemOk)
  /\ setStatus(EnqueueStatus(queue', status))
  /\ syncTimer' = triggerBackgroundSync(syncTimer, queue', isOnline)
  /\ timeouts' = timeoutsAfterTrigger(syncTimer, queue', isOnline, timeouts, appended)
  /\ appended' = appended + 1
  /\ queueIds' = Append(queueIds, appended + 1)
  /\ RecordWrite(queueIds', setItemOk)
  /\ UNCHANGED <<flights, online, now, acked, lost, dropped, enabled, outside>>

\* a call that the local backend rejects: the await throws before enqueue
LocalRejects ==
  /\ lastCall' = "rejected"
  /\ UNCHANGED <<queue, status, syncTimer, flights, stored, local, online, now,
                 queueIds, storedIds, appended, acked, lost, dropped, lastWrite,
                 writeFailures, timeouts, enabled, outside, subscribers>>

\* a call that completes without touching the queue
ResolvesWithoutEnqueue ==
  UNCHANGED <<queue, status, syncTimer, flights, stored, online, now,
              queueIds, storedIds, appended, acked, lost, dropped, lastWrite,
              writeFailures, timeouts, enabled, outside, subscribers>>

\* bulkDelete removing the first listed key only
LocalDeleteManyFirstOnly(store, ids) ==
  IF Len(ids) = 0 THEN store ELSE {r \in store : r.id # ids[1]}

\* the local backend: put by id, delete by id, delete many, clear
LocalPut(store, record) == {r \in store : r.id # record.id} \cup {record}
LocalDeleteOne(store, id) == {r \in store : r.id # id}
LocalDeleteMany(store, ids) == {r \in store : r.id \notin Range(ids)}
LocalClear(store) == {}

\* the order of the primary keys in the table
IdOrder == <<"id-1", "id-2", "id-3">>
IdRank(id) == CHOOSE k \in 1..Len(IdOrder) : IdOrder[k] = id

\* the order of the createdAt index: by createdAt, equal values by primary key
KeyBefore(a, b) ==
  \/ a.createdAt < b.createdAt
  \/ a.createdAt = b.createdAt /\ IdRank(a.id) < IdRank(b.id)

\* db.calculations.orderBy("createdAt")
RECURSIVE orderByCreatedAt(_)
orderByCreatedAt(store) ==
  IF store = {} THEN <<>>
  ELSE LET first == CHOOSE r \in store : \A o \in store \ {r} : KeyBefore(r, o)
       IN <<first>> \o orderByCreatedAt(store \ {first})

reverse(s) == [k \in 1..Len(s) |-> s[Len(s) + 1 - k]]

\* the collection read without reverse()
LocalListOldestFirst(store) == orderByCreatedAt(store)

\* list of the local backend: orderBy("createdAt").reverse().toArray()
LocalList(store) == reverse(orderByCreatedAt(store))

\* the local write each mutating call awaits before it enqueues op
LocalWriteOf(store, op) ==
  IF op.type = "add" THEN LocalPut(store, op.record)
  ELSE IF op.type = "delete" THEN LocalDeleteOne(store, op.id)
  ELSE IF op.type = "bulkDelete" THEN LocalDeleteMany(store, op.ids)
  ELSE LocalClear(store)

\* listCalculations of the IndexedDB backend: the caller receives the list
indexedListCalculations ==
  \E localOk \in BOOLEAN :
    IF localOk
    THEN /\ listed' = LocalList(local)
         /\ lastCall' = "resolved"
         /\ UNCHANGED <<queue, status, syncTimer, flights, stored, local,
                        online, now, queueIds, storedIds, appended, acked,
                        lost, dropped, lastWrite, writeFailures, timeouts,
                        enabled, peerQueue, peerIds, subscribers>>
    ELSE LocalRejects

\* listCalculations of the engine returns the local backend's promise
listCalculations == indexedListCalculations

\* enqueue placed before the await of the local backend
addCalculationEnqueuesFirst(record) ==
  \E localOk \in BOOLEAN, setItemOk \in BOOLEAN :
    IF localOk
    THEN /\ local' = LocalPut(local, record)
         /\ enqueue(AddOp(record), setItemOk)
         /\ lastCall' = "resolved"
    ELSE /\ local' = local
         /\ enqueue(AddOp(record), setItemOk)
         /\ lastCall' = "rejected"

addCalculation(record) ==
  \E localOk \in BOOLEAN, setItemOk \in BOOLEAN :
    IF localOk
    THEN /\ local' = LocalPut(local, record)
         /\ enqueue(AddOp(record), setItemOk)
         /\ lastCall' = "resolved"
    ELSE LocalRejects

deleteCalculation(id) ==
  \E localOk \in BOOLEAN, setItemOk \in BOOLEAN :
    IF localOk
    THEN /\ local' = LocalDeleteOne(local, id)
         /\ enqueue(DeleteOp(id), setItemOk)
         /\ lastCall' = "resolved"
    ELSE LocalRejects

\* the test of ids.length left out
bulkDeleteCalculationsUnguarded(ids) ==
  \E localOk \in BOOLEAN, setItemOk \in BOOLEAN :
    IF localOk
    THEN /\ local' = LocalDeleteMany(local, ids)
         /\ enqueue(BulkDeleteOp(ids), setItemOk)
         /\ lastCall' = "resolved"
    ELSE LocalRejects

\* the test of ids.length inverted
bulkDeleteCalculationsInverted(ids) ==
  \E localOk \in BOOLEAN, setItemOk \in BOOLEAN :
    IF localOk
    THEN /\ local' = LocalDeleteMany(local, ids)
         /\ IF Len(ids) = 0
            THEN enqueue(BulkDeleteOp(ids), setItemOk)
            ELSE ResolvesWithoutEnqueue
         /\ lastCall' = "resolved"
    ELSE LocalRejects

bulkDeleteCalculations(ids) ==
  \E localOk \in BOOLEAN, setItemOk \in BOOLEAN :
    IF localOk
    THEN /\ local' = LocalDeleteMany(local, ids)
         /\ IF Len(ids) > 0
            THEN enqueue(BulkDeleteOp(ids), setItemOk)
            ELSE ResolvesWithoutEnqueue
         /\ lastCall' = "resolved"
    ELSE LocalRejects

\* enqueue placed before the await of the local backend
clearCalculationsEnqueuesFirst ==
  \E localOk \in BOOLEAN, setItemOk \in BOOLEAN :
    /\ enqueue(ClearOp, setItemOk)
    /\ IF localOk
       THEN /\ local' = LocalClear(local)
            /\ lastCall' = "resolved"
       ELSE /\ local' = local
            /\ lastCall' = "rejected"

clearCalculations ==
  \E localOk \in BOOLEAN, setItemOk \in BOOLEAN :
    IF localOk
    THEN /\ local' = LocalClear(local)
         /\ enqueue(ClearOp, setItemOk)
         /\ lastCall' = "resolved"
    ELSE LocalRejects

\* ------------------------------------------------------------- flushQueue
\* the status of flushQueue's empty-queue return
EmptyStatus(st) ==
  [state |-> "idle", pending |-> 0,
   lastSyncedAt |-> st.lastSyncedAt, lastError |-> NoError]

\* the status of flushQueue's offline return
OfflineStatus(q, st) ==
  [state |-> "queued", pending |-> Len(q),
   lastSyncedAt |-> st.lastSyncedAt, lastError |-> NoError]

\* the status published before the fetch
SyncingStatus(batch, st) ==
  [state |-> "syncing", pending |-> Len(batch),
   lastSyncedAt |-> st.lastSyncedAt, lastError |-> NoError]

\* the clock value left out of the status
SuccessStatusNoStamp(q, syncedAt) ==
  [state |-> IF Len(q) > 0 THEN "queued" ELSE "idle",
   pending |-> Len(q),
   lastSyncedAt |-> NoTime, lastError |-> NoError]

\* the status published after a successful response, q being the spliced queue
SuccessStatus(q, syncedAt) ==
  [state |-> IF Len(q) > 0 THEN "queued" ELSE "idle",
   pending |-> Len(q),
   lastSyncedAt |-> syncedAt, lastError |-> NoError]

\* the status published by the catch block
ErrorStatus(q, st, message) ==
  [state |-> "error", pending |-> Len(q),
   lastSyncedAt |-> st.lastSyncedAt, lastError |-> message]

\* the body of the POST: the serialised batch and the last sync time (0 for null)
RequestBody(batch, st) ==
  [changes |-> StringifyOps(batch), lastSyncTimestamp |-> st.lastSyncedAt]

\* this.queue.splice(0, n): what remains of q
splice(q, n) == SubSeq(q, n + 1, Len(q))

\* error.message of the two ways the try block throws
FailureMessages == {"Sync failed with status 500", "Failed to fetch"}

\* the timer callback: clear the handle and run flushQueue up to its await
TimerFires ==
  /\ Len(timeouts) > 0
  /\ timeouts' = Tail(timeouts)
  /\ syncTimer' = FALSE
  /\ IF Len(queue) = 0
     THEN /\ setStatus(EmptyStatus(status))
          /\ flights' = flights
     ELSE IF ~isOnline
     THEN /\ setStatus(OfflineStatus(queue, status))
          /\ flights' = flights
     ELSE /\ Len(flights) < MaxFlights
          /\ setStatus(SyncingStatus(queue, status))
          /\ flights' = Append(flights,
                          [batch |-> queue,
                           body |-> RequestBody(queue, status'),
                           ids |-> queueIds,
                           startCount |-> appended])
  /\ UNCHANGED <<queue, stored, local, online, now, queueIds, storedIds,
                 appended, acked, lost, dropped, lastWrite, writeFailures,
                 lastCall, enabled, outside>>

\* flights without its i-th element
RemoveAt(s, i) == SubSeq(s, 1, i - 1) \o SubSeq(s, i + 1, Len(s))

\* the local records emptied when the response arrives
FlushSucceedsClearsLocal(i) ==
  \E setItemOk \in BOOLEAN, syncedAt \in now..MaxNow :
    LET f == flights[i] IN
    /\ queue' = splice(queue, Len(f.batch))
    /\ stored' = writeQueuedOperations(queue', stored, setItemOk)
    /\ now' = syncedAt
    /\ setStatus(SuccessStatus(queue', syncedAt))
    /\ syncTimer' = triggerBackgroundSync(syncTimer, queue', isOnline)
    /\ timeouts' = timeoutsAfterTrigger(syncTimer, queue', isOnline, timeouts, appended)
    /\ flights' = RemoveAt(flights, i)
    /\ queueIds' = splice(queueIds, Len(f.batch))
    /\ RecordWrite(queueIds', setItemOk)
    /\ acked' = acked \cup Range(f.ids)
    /\ lost' = lost \cup ((Range(queueIds) \ Range(queueIds')) \ acked')
    /\ local' = LocalClear(local)
    /\ UNCHANGED <<online, appended, dropped, lastCall, enabled, outside>>

\* the fetch of flight i resolves with response.ok: splice, persist, read the
\* clock, publish, trigger
FlushSucceeds(i) ==
  \E setItemOk \in BOOLEAN, syncedAt \in now..MaxNow :
    LET f == flights[i] IN
    /\ queue' = splice(queue, Len(f.batch))
    /\ stored' = writeQueuedOperations(queue', stored, setItemOk)
    /\ now' = syncedAt
    /\ setStatus(SuccessStatus(queue', syncedAt))
    /\ syncTimer' = triggerBackgroundSync(syncTimer, queue', isOnline)
    /\ timeouts' = timeoutsAfterTrigger(syncTimer, queue', isOnline, timeouts, appended)
    /\ flights' = RemoveAt(flights, i)
    /\ queueIds' = splice(queueIds, Len(f.batch))
    /\ RecordWrite(queueIds', setItemOk)
    /\ acked' = acked \cup Range(f.ids)
    /\ lost' = lost \cup ((Range(queueIds) \ Range(queueIds')) \ acked')
    /\ UNCHANGED <<local, online, appended, dropped, lastCall, enabled, outside>>

\* the catch block rethrowing into the caller of the latest mutation
FlushFailsRethrows(i) ==
  \E message \in FailureMessages :
    /\ setStatus(ErrorStatus(queue, status, message))
    /\ flights' = RemoveAt(flights, i)
    /\ lastCall' = "rejected"
    /\ UNCHANGED <<queue, syncTimer, stored, local, online, now, queueIds,
                   storedIds, appended, acked, lost, dropped, lastWrite,
                   writeFailures, timeouts, enabled, outside>>

\* the fetch of flight i rejects, or resolves with a status that is not OK
FlushFails(i) ==
  \E message \in FailureMessages :
    /\ setStatus(ErrorStatus(queue, status, message))
    /\ flights' = RemoveAt(flights, i)
    /\ UNCHANGED <<queue, syncTimer, stored, local, online, now, queueIds,
                   storedIds, appended, acked, lost, dropped, lastWrite,
                   writeFailures, timeouts, lastCall, enabled, outside>>

\* --------------------------------------------------------------- triggers
\* a caller invokes the public triggerBackgroundSync
ManualTrigger ==
  /\ syncTimer' = triggerBackgroundSync(syncTimer, queue, isOnline)
  /\ timeouts' = timeoutsAfterTrigger(syncTimer, queue, isOnline, timeouts, appended)
  /\ UNCHANGED <<queue, status, flights, stored, local, online, now,
                 queueIds, storedIds, appended, acked, lost, dropped, lastWrite,
                 writeFailures, lastCall, enabled, outside, subscribers>>

\* connectivity returns: the 'online' listener calls triggerBackgroundSync
GoesOnline ==
  /\ ~online
  /\ online' = TRUE
  /\ syncTimer' = triggerBackgroundSync(syncTimer, queue, online')
  /\ timeouts' = timeoutsAfterTrigger(syncTimer, queue, online', timeouts, appended)
  /\ UNCHANGED <<queue, status, flights, stored, local, now,
                 queueIds, storedIds, appended, acked, lost, dropped, lastWrite,
                 writeFailures, lastCall, enabled, outside, subscribers>>

\* connectivity is lost: no listener is registered for it
GoesOffline ==
  /\ online
  /\ online' = FALSE
  /\ UNCHANGED <<queue, status, syncTimer, flights, stored, local, now,
                 queueIds, storedIds, appended, acked, lost, dropped, lastWrite,
                 writeFailures, timeouts, lastCall, enabled, outside, subscribers>>

\* the tab is reloaded: a new HybridBackend is constructed over localStorage;
\* the timer, the pending fetch continuations and the listeners of the old
\* one are gone
Restart ==
  /\ queue' = readQueuedOperations(stored)
  /\ queueIds' = storedIds
  /\ status' = InitialStatus(queue')
  /\ syncTimer' = triggerBackgroundSync(FALSE, queue', isOnline)
  /\ timeouts' = timeoutsAfterTrigger(FALSE, queue', isOnline, <<>>, appended)
  /\ flights' = <<>>
  /\ lastWrite' = "none"
  /\ dropped' = dropped \cup (Range(queueIds) \ Range(storedIds))
  /\ listeners' = <<>>
  /\ received' = [l \in Listeners |-> NoStatus]
  /\ notified' = <<>>
  /\ UNCHANGED <<stored, local, online, now, storedIds, appended, acked,
                 lost, writeFailures, lastCall, enabled, outside>>

\* ------------------------------------------------------------- second tab
\* a second tab of the app is opened or reloaded: the constructor of its
\* HybridBackend reads the queue under the same key
PeerConstructs ==
  /\ peerQueue' = readQueuedOperations(stored)
  /\ peerIds' = storedIds
  /\ UNCHANGED <<queue, status, syncTimer, flights, stored, local, online, now,
                 queueIds, storedIds, appended, acked, lost, dropped, lastWrite,
                 writeFailures, timeouts, lastCall, enabled, subscribers,
                 listed>>

\* addCalculation in the second tab: the record is put into the IndexedDB
\* database both tabs use, then enqueue pushes onto that tab's queue and
\* writes that queue under the key
PeerAppends(record) ==
  /\ appended < MaxOps
  /\ local' = LocalPut(local, record)
  /\ peerQueue' = Append(peerQueue, AddOp(record))
  /\ peerIds' = Append(peerIds, appended + 1)
  /\ appended' = appended + 1
  /\ stored' = writeQueuedOperations(peerQueue', stored, TRUE)
  /\ storedIds' = peerIds'
  /\ UNCHANGED <<queue, status, syncTimer, flights, online, now, queueIds,
                 acked, lost, dropped, lastWrite, writeFailures, timeouts,
                 lastCall, enabled, subscribers, listed>>

\* a request of the second tab that carried its whole queue succeeds: splice
\* and write
PeerFlushSucceeds ==
  /\ Len(peerQueue) > 0
  /\ peerQueue' = splice(peerQueue, Len(peerQueue))
  /\ peerIds' = splice(peerIds, Len(peerQueue))
  /\ stored' = writeQueuedOperations(peerQueue', stored, TRUE)
  /\ storedIds' = peerIds'
  /\ acked' = acked \cup Range(peerIds)
  /\ UNCHANGED <<queue, status, syncTimer, flights, local, online, now,
                 queueIds, appended, lost, dropped, lastWrite, writeFailures,
                 timeouts, lastCall, enabled, subscribers, listed>>

\* ---------------------------------------------------------- subscription
\* subscribeSyncStatus(listener): add to the set, call once with this.status
subscribeSyncStatus(l) ==
  /\ listeners' = SetAdd(listeners, l)
  /\ received' = [received EXCEPT ![l] = status]
  /\ UNCHANGED <<queue, status, syncTimer, flights, stored, local, online, now,
                 queueIds, storedIds, appended, acked, lost, dropped, lastWrite,
                 writeFailures, timeouts, lastCall, enabled, outside, notified>>

\* the closure subscribeSyncStatus returned for l
unsubscribe(l) ==
  /\ l \in Range(listeners)
  /\ listeners' = SetDelete(listeners, l)
  /\ received' = [received EXCEPT ![l] = NoStatus]
  /\ UNCHANGED <<queue, status, syncTimer, flights, stored, local, online, now,
                 queueIds, storedIds, appended, acked, lost, dropped, lastWrite,
                 writeFailures, timeouts, lastCall, enabled, outside, notified>>

\* ------------------------------------------------------------------ db.ts
createDisabledSyncStatus ==
  [state |-> "disabled", pending |-> 0,
   lastSyncedAt |-> NoTime, lastError |-> NoError]

\* getSyncStatus of db.ts: hybridBackend?.getSyncStatus() ?? the disabled status
getSyncStatus == IF enabled THEN status ELSE createDisabledSyncStatus

\* a call answered by the IndexedDB backend alone
LocalOnly(after) ==
  \E localOk \in BOOLEAN :
    IF localOk
    THEN /\ local' = after
         /\ lastCall' = "resolved"
         /\ ResolvesWithoutEnqueue
    ELSE LocalRejects

\* backend = hybridBackend whatever the flag says
dbAddCalculationAlwaysHybrid(record) == addCalculation(record)

\* addCalculation of db.ts: backend is the HybridBackend or the IndexedDB one
dbAddCalculation(record) ==
  IF enabled THEN addCalculation(record)
  ELSE LocalOnly(LocalPut(local, record))

\* deleteCalculation of db.ts
dbDeleteCalculation(id) ==
  IF enabled THEN deleteCalculation(id)
  ELSE LocalOnly(LocalDeleteOne(local, id))

\* bulkDeleteCalculations of db.ts: an empty list returns before the backend
\* is called
dbBulkDeleteCalculations(ids) ==
  IF Len(ids) = 0
  THEN /\ local' = local
       /\ lastCall' = "resolved"
       /\ ResolvesWithoutEnqueue
  ELSE IF enabled THEN bulkDeleteCalculations(ids)
  ELSE LocalOnly(LocalDeleteMany(local, ids))

\* clearCalculations of db.ts
dbClearCalculations ==
  IF enabled THEN clearCalculations
  ELSE LocalOnly(LocalClear(local))

\* listCalculations of db.ts
dbListCalculations ==
  IF enabled THEN listCalculations ELSE indexedListCalculations

\* subscribeSyncStatus of db.ts: without a HybridBackend the listener is called
\* once with the disabled status and kept nowhere
dbSubscribeSyncStatus(l) ==
  IF enabled THEN subscribeSyncStatus(l)
  ELSE /\ received' = [received EXCEPT ![l] = createDisabledSyncStatus]
       /\ UNCHANGED <<queue, status, syncTimer, flights, stored, local, online,
                      now, queueIds, storedIds, appended, acked, lost, dropped,
                      lastWrite, writeFailures, timeouts, lastCall, enabled, outside,
                      listeners, notified>>

\* the closure subscribeSyncStatus of db.ts returned for l: the engine's, or
\* the empty function
dbUnsubscribe(l) ==
  IF enabled THEN unsubscribe(l)
  ELSE /\ received[l] # NoStatus
       /\ UNCHANGED vars

\* triggerBackgroundSync of db.ts
dbTriggerBackgroundSync ==
  IF enabled THEN ManualTrigger ELSE UNCHANGED vars

\* the 'online' event: only a constructed HybridBackend listens for it
OnlineEvent ==
  IF enabled THEN GoesOnline
  ELSE /\ ~online
       /\ online' = TRUE
       /\ UNCHANGED <<queue, status, syncTimer, flights, stored, local, now,
                      queueIds, storedIds, appended, acked, lost, dropped,
                      lastWrite, writeFailures, timeouts, lastCall, enabled, outside,
                      subscribers>>

\* the module of db.ts evaluated with the flag on or off, on a first
\* installation
ConfigInit ==
  /\ enabled \in BOOLEAN
  /\ stored = MissingItem
  /\ storedIds = <<>>
  /\ queue = IF enabled THEN readQueuedOperations(stored) ELSE <<>>
  /\ queueIds = storedIds
  /\ status = IF enabled THEN InitialStatus(queue) ELSE createDisabledSyncStatus
  /\ online \in BOOLEAN
  /\ syncTimer = (enabled /\ triggerBackgroundSync(FALSE, queue, online))
  /\ flights = <<>>
  /\ local = {}
  /\ now = 1
  /\ appended = 0
  /\ acked = {}
  /\ lost = {}
  /\ lastWrite = "none"
  /\ dropped = {}
  /\ writeFailures = 0
  /\ timeouts = IF enabled
                THEN timeoutsAfterTrigger(FALSE, queue, online, <<>>, 0)
                ELSE <<>>
  /\ lastCall = "none"
  /\ listeners = <<>>
  /\ received = [l \in Listeners |-> NoStatus]
  /\ notified = <<>>
  /\ peerQueue = <<>>
  /\ peerIds = <<>>
  /\ listed = <<>>

\* the calls of the storage interface that append to the log
MutationCalls ==
  \/ \E record \in Records : addCalculation(record)
  \/ \E id \in DeleteIds : deleteCalculation(id)
  \/ \E ids \in BulkIdLists : bulkDeleteCalculations(ids)
  \/ clearCalculations

\* the timer, the settling of a fetch, the triggers and the connectivity signal
SchedulerSteps ==
  \/ TimerFires
  \/ \E i \in 1..Len(flights) : FlushSucceeds(i)
  \/ \E i \in 1..Len(flights) : FlushFails(i)
  \/ ManualTrigger
  \/ GoesOnline
  \/ GoesOffline

Next ==
  \/ MutationCalls
  \/ SchedulerSteps
  \/ Restart

Spec == Init /\ [][Next]_vars

\* the engine with every append made through addCalculation, over a local
\* backend that never rejects
FlowNext ==
  \/ /\ \E record \in Records : addCalculation(record)
     /\ lastCall' # "rejected"
  \/ SchedulerSteps
  \/ Restart

\* FlowNext with Date.now() returning one value throughout
SteadyFlowNext ==
  \/ /\ \E record \in Records : addCalculation(record)
     /\ lastCall' # "rejected"
  \/ SchedulerSteps /\ now' = now
  \/ Restart

FlowSpec == Init /\ [][SteadyFlowNext]_vars

\* every call of the storage interface, on shorter runs, over a local backend
\* that never rejects, Date.now() returning one value throughout
ApiNext ==
  /\ Next
  /\ appended' <= MaxApiOps
  /\ Len(flights') <= MaxApiFlights
  /\ lastCall' # "rejected"
  /\ now' = now

ApiSpec == Init /\ [][ApiNext]_vars

\* one engine lifetime on shorter runs, the local backend rejecting at will
\* and localStorage accepting every write
CallNext ==
  /\ \/ MutationCalls
     \/ SchedulerSteps
  /\ appended' <= MaxApiOps
  /\ Len(flights') <= MaxApiFlights
  /\ writeFailures' = 0

CallSpec == Init /\ [][CallNext]_vars

\* the engine started over any persisted value, on shorter runs
HydrateNext ==
  /\ FlowNext
  /\ appended' <= MaxApiOps
  /\ Len(flights') <= MaxApiFlights

HydrateSpec == HydrateInit /\ [][HydrateNext]_vars

\* the exports of db.ts with their subscribers, on shorter runs, every append
\* made through addCalculation, localStorage accepting every write and the
\* local backend never rejecting
ShortRun ==
  /\ appended' <= MaxApiOps
  /\ Len(flights') <= MaxApiFlights
  /\ writeFailures' = 0
  /\ lastCall' # "rejected"

ListenNext ==
  \/ (\E record \in Records : dbAddCalculation(record)) /\ ShortRun
  \/ dbTriggerBackgroundSync
  \/ \E l \in Listeners : dbSubscribeSyncStatus(l)
  \/ \E l \in Listeners : dbUnsubscribe(l)
  \/ enabled /\ TimerFires /\ ShortRun
  \/ enabled /\ \E i \in 1..Len(flights) : FlushSucceeds(i) /\ ShortRun
  \/ enabled /\ \E i \in 1..Len(flights) : FlushFails(i)
  \/ OnlineEvent
  \/ GoesOffline

ListenSpec == ConfigInit /\ [][ListenNext]_vars

\* two tabs over one localStorage and one IndexedDB database, on shorter
\* runs, every append made through addCalculation, localStorage accepting
\* every write, Date.now() returning one value throughout
TabsNext ==
  \/ (\E record \in Records : addCalculation(record)) /\ ShortRun
  \/ SchedulerSteps /\ ShortRun /\ now' = now
  \/ Restart
  \/ PeerConstructs
  \/ (\E record \in Records : PeerAppends(record)) /\ ShortRun
  \/ PeerFlushSucceeds

TabsSpec == Init /\ [][TabsNext]_vars

\* the exports of db.ts over the IndexedDB backend alone, called with several
\* records
StoreInit == ConfigInit /\ ~enabled

StoreNext ==
  \/ \E record \in StoreRecords : dbAddCalculation(record)
  \/ \E id \in StoreIds : dbDeleteCalculation(id)
  \/ \E ids \in StoreIdLists : dbBulkDeleteCalculations(ids)
  \/ dbClearCalculations
  \/ dbListCalculations

StoreSpec == StoreInit /\ [][StoreNext]_vars

\* the records the reading caller has saved
ReadRecords == {r \in StoreRecords : r.id \in {"id-1", "id-2"}}

\* the engine with a caller that saves and reads, on shorter runs, localStorage
\* accepting every write, the local backend never rejecting and Date.now()
\* returning one value throughout
ReadNext ==
  \/ (\E record \in ReadRecords : addCalculation(record)) /\ ShortRun
  \/ listCalculations /\ ShortRun
  \/ TimerFires /\ ShortRun
  \/ (\E i \in 1..Len(flights) : FlushSucceeds(i)) /\ ShortRun /\ now' = now
  \/ \E i \in 1..Len(flights) : FlushFails(i)
  \/ GoesOnline
  \/ GoesOffline

ReadSpec == Init /\ [][ReadNext]_vars

\* one engine lifetime, without reload
LiveNext ==
  \/ MutationCalls
  \/ SchedulerSteps

\* a pending timer eventually fires and every fetch eventually settles; an
\* endpoint that keeps being asked eventually accepts
LiveSpec ==
  /\ Init
  /\ [][LiveNext]_vars
  /\ WF_vars(TimerFires)
  /\ WF_vars(\E i \in 1..Len(flights) : FlushSucceeds(i) \/ FlushFails(i))
  /\ SF_vars(\E i \in 1..Len(flights) : FlushSucceeds(i))

TypeOK ==
  /\ status.state \in {"idle", "queued", "syncing", "error", "disabled"}
  /\ status.state = "disabled" <=> ~enabled
  /\ status.pending \in 0..MaxOps
  /\ status.lastSyncedAt \in 0..MaxNow
  /\ syncTimer \in BOOLEAN
  /\ lastCall \in {"none", "resolved", "rejected"}
  /\ enabled \in BOOLEAN
  /\ Range(listeners) \subseteq Listeners
  /\ Len(listeners) = Cardinality(Range(listeners))
  /\ Range(notified) \subseteq Listeners
  /\ \A t \in 1..Len(timeouts) : timeouts[t] \in 0..MaxOps
  /\ Len(queue) = Len(queueIds)
  /\ Len(flights) <= MaxFlights
  /\ \A i \in 1..Len(flights) : Len(flights[i].batch) = Len(flights[i].ids)

\* ------------------------------------------------------------ properties
\* position of x in s
Pos(s, x) == CHOOSE i \in 1..Len(s) : s[i] = x

\* every element of s occurs in t, in the same relative order
IsSubsequence(s, t) ==
  /\ Range(s) \subseteq Range(t)
  /\ \A i, j \in 1..Len(s) : i < j => Pos(t, s[i]) < Pos(t, s[j])

\* C1: at most one request to the sync endpoint is outstanding at any time.
SingleFlight == Len(flights) <= 1

\* C2: no operation is spliced off the log unless a request that returned
\* success carried it.
NoUnsentRemoval == lost = {}

\* C3: when the request of a flush succeeds, the log left by the success
\* handler is exactly the operations appended since that flush took its
\* batch, in append order.
ExactPrefixRemoval ==
  [][\A i \in 1..Len(flights) :
        FlushSucceeds(i) => queueIds' = IdsAfter(flights[i].startCount)]_vars

\* C4: when the request of a flush fails, the log after the failure handler
\* still holds every entry it held when that flush took its batch, in order.
NoLossOnFailure ==
  [][\A i \in 1..Len(flights) :
        FlushFails(i) => IsSubsequence(flights[i].ids, queueIds')]_vars

\* C5: status.pending equals the length of the log in every reachable state.
PendingIsLength == status.pending = Len(queue)

\* C5 witness: an append and a failed flush after an earlier successful one.
PendingAfterAppendAndFlushes ==
  /\ status.state = "error"
  /\ acked # {}
  /\ Len(queue) >= 2
  /\ status.pending = Len(queue)

\* C6: a reload whose engine saw no setItem fail hydrates a log with the same
\* entries in the same order as the log the engine held.
DurableAcrossRestart ==
  [][(Restart /\ lastWrite # "failed") => SameEntries(queue', queue)]_vars

\* C6 witness: a log of two appends, one an add whose record lost its
\* undefined purchaseUrl in the stored text, hydrated by a reload.
HydratedAfterAppends ==
  /\ lastWrite = "none"
  /\ writeFailures = 0
  /\ Len(queue) >= 2
  /\ \E i \in 1..Len(queue) :
       /\ queue[i].type = "add"
       /\ "purchaseUrl" \notin DOMAIN queue[i].record

FifoDelivery ==
  \A i \in 1..Len(flights) :
    LET f == flights[i] IN
    /\ \A j, k \in 1..Len(f.ids) : j < k => f.ids[j] < f.ids[k]
    /\ \A y \in Range(f.ids) : \A x \in 1..(y - 1) :
         x \in Range(f.ids) \/ x \in acked \/ x \in dropped

\* C9: once connectivity stays online, a non-empty log is eventually drained
\* and the state returns to idle.
EventualDelivery ==
  (<>[]online) =>
     [](Len(queue) > 0 => <>(Len(queue) = 0 /\ status.state = "idle"))

\* C10: the state is syncing exactly while a request is outstanding.
SyncingIffInFlight == (Len(flights) > 0) <=> (status.state = "syncing")

\* C11: the log is empty exactly when the state is idle: idle implies an empty
\* log, and queued, syncing and error each imply a non-empty log.
IdleIffEmpty == (Len(queue) = 0) <=> (status.state = "idle")

\* C12: every change of status.state made by a running engine is idle to
\* queued, queued to syncing, syncing to idle, syncing to queued, syncing to
\* error or error to syncing (the status of a newly constructed engine aside).
OnlyListedTransitions ==
  [][(status'.state # status.state /\ ~Restart) =>
        <<status.state, status'.state>> \in
          { <<"idle", "queued">>, <<"queued", "syncing">>,
            <<"syncing", "idle">>, <<"syncing", "queued">>,
            <<"syncing", "error">>, <<"error", "syncing">> }]_vars

\* C13: a call of triggerBackgroundSync made while a request is outstanding
\* or while the log is empty schedules no timer, starts no request and leaves
\* the log and the status unchanged.
TriggerIdleWhenBusyOrEmpty ==
  [][(ManualTrigger /\ (Len(flights) > 0 \/ Len(queue) = 0)) =>
        /\ timeouts' = timeouts
        /\ syncTimer' = syncTimer
        /\ flights' = flights
        /\ queue' = queue
        /\ status' = status]_vars

\* C14: a mutating call that the local backend rejects rejects to its caller
\* and changes nothing: no operation is appended, the persisted queue, the
\* status and the local records are unchanged, no timer is scheduled and no
\* request is started.
RejectionChangesNothing ==
  [][(MutationCalls /\ lastCall' = "rejected") =>
        /\ queue' = queue
        /\ appended' = appended
        /\ stored' = stored
        /\ status' = status
        /\ local' = local
        /\ syncTimer' = syncTimer
        /\ timeouts' = timeouts
        /\ flights' = flights]_vars

\* C14 witness: a call was rejected by an engine holding operations, one of
\* them in a request that is outstanding.
RejectedWhileBusy ==
  /\ lastCall = "rejected"
  /\ Len(queue) > 0
  /\ Len(flights) > 0

\* C15: a mutating call that changed the local records resolves, whatever the
\* connectivity, the state and the outstanding requests; a failed request
\* leaves the outcome of the call alone and shows only as state error with
\* lastError.
SyncFailureNeverReachesCaller ==
  [][ /\ (MutationCalls /\ local' # local) => lastCall' = "resolved"
      /\ (\E i \in 1..Len(flights) : FlushFails(i)) =>
            /\ lastCall' = lastCall
            /\ status'.state = "error"
            /\ status'.lastError \in FailureMessages ]_vars

\* C15 witness: the latest call resolved, connectivity is lost and the request
\* carrying its operation has failed.
ResolvedThenFlushFailed ==
  /\ lastCall = "resolved"
  /\ ~online
  /\ status.state = "error"
  /\ status.lastError \in FailureMessages
  /\ Len(queue) > 0

\* C19 as stated: every mutating call that resolves makes the log one entry
\* longer.
OneOperationPerCall ==
  [][(MutationCalls /\ lastCall' = "resolved") =>
        Len(queue') = Len(queue) + 1]_vars

\* C19 amended: a resolved add, delete, clear or bulk delete of a non-empty
\* id list appends exactly one operation, of the kind of the call, to the
\* tail of the log; a resolved bulk delete of an empty id list appends none.
OneOperationPerEffectiveCall ==
  [][ /\ \A record \in Records :
           (addCalculation(record) /\ lastCall' = "resolved") =>
              queue' = Append(queue, AddOp(record))
      /\ \A id \in DeleteIds :
           (deleteCalculation(id) /\ lastCall' = "resolved") =>
              queue' = Append(queue, DeleteOp(id))
      /\ \A ids \in BulkIdLists :
           (bulkDeleteCalculations(ids) /\ lastCall' = "resolved") =>
              queue' = IF Len(ids) > 0 THEN Append(queue, BulkDeleteOp(ids))
                       ELSE queue
      /\ (clearCalculations /\ lastCall' = "resolved") =>
              queue' = Append(queue, ClearOp) ]_vars

\* C19 witness: a bulk delete and a clear have resolved and the log holds one
\* operation for each.
TwoCallsTwoOperations ==
  /\ lastCall = "resolved"
  /\ Len(queue) = 2
  /\ queue[1].type = "bulkDelete"
  /\ queue[2].type = "clear"

\* C16: at most one timeout is pending; an append made while one is pending
\* neither replaces it nor adds another and starts no request; when the
\* timeout fires and sends, it starts exactly one request, whose batch is the
\* whole log and holds every operation appended since the timeout was
\* scheduled.
DebounceCollapsesBurst ==
  [][ /\ Len(timeouts') <= 1
      /\ (appended' = appended + 1 /\ Len(timeouts) > 0) =>
            /\ timeouts' = timeouts
            /\ flights' = flights
      /\ (TimerFires /\ flights' # flights) =>
            /\ Len(flights') = Len(flights) + 1
            /\ flights'[Len(flights')].batch = queue
            /\ \A n \in (Head(timeouts) + 1)..appended :
                  n \in Range(flights'[Len(flights')].ids) ]_vars

\* C17: an append made while offline publishes state queued with pending
\* equal to the length of the log and schedules nothing; and once
\* connectivity has returned with a non-empty log (the 'online' listener has
\* scheduled the timeout), the state becomes syncing unless connectivity is
\* lost again first.
OfflineQueuedThenReconnectFlushes ==
  /\ [][(appended' = appended + 1 /\ ~online) =>
           /\ status'.state = "queued"
           /\ status'.pending = Len(queue')
           /\ timeouts' = timeouts
           /\ flights' = flights]_vars
  /\ []((online /\ Len(timeouts) > 0 /\ Len(queue) > 0) =>
           <>(status.state = "syncing" \/ ~online))

\* C18: the status of a newly constructed engine has pending equal to the
\* length of the persisted log and state queued if that log is non-empty,
\* idle if it is empty; with a non-empty log and connectivity on, the
\* constructor schedules the flush timeout.
StatusDerivedAtConstruction ==
  [][Restart =>
       LET persisted == IF stored.kind = "array" THEN stored.items ELSE <<>> IN
       /\ Len(queue') = Len(persisted)
       /\ status'.pending = Len(persisted)
       /\ status'.state = IF Len(persisted) > 0 THEN "queued" ELSE "idle"
       /\ (Len(persisted) > 0 /\ online) => (syncTimer' /\ Len(timeouts') = 1)
       /\ (Len(persisted) = 0 \/ ~online) => (~syncTimer' /\ timeouts' = <<>>)
       /\ flights' = <<>>]_vars

\* C18 witness: a newly constructed engine that hydrated two operations while
\* online.
HydratedPendingScheduled ==
  /\ lastWrite = "none"
  /\ Len(queue) = 2
  /\ status.state = "queued"
  /\ status.pending = 2
  /\ online
  /\ syncTimer

\* C20: an engine constructed over a missing key, an empty text, text that is
\* not JSON, JSON that is not an array or a storage whose read throws holds
\* an empty log, with zero pending, state idle and nothing scheduled, for as
\* long as it has appended nothing.
CorruptHydratesEmpty ==
  (lastWrite = "none" /\ stored.kind # "array") =>
     /\ queue = <<>>
     /\ status.pending = 0
     /\ status.state = "idle"
     /\ ~syncTimer
     /\ timeouts = <<>>
     /\ flights = <<>>

\* C20 witness: an engine constructed over text that is not JSON, after an
\* earlier engine failed to persist its append.
ConstructedOverInvalidText ==
  /\ lastWrite = "none"
  /\ stored = InvalidItem
  /\ dropped # {}
  /\ queue = <<>>
  /\ status.state = "idle"

\* C21: an engine constructed over a persisted array holding an entry whose
\* tag is not add, delete, bulkDelete or clear hydrates an empty log, and no
\* request ever carries an entry with such a tag.
UnknownTagNeverHydratedOrSent ==
  /\ (lastWrite = "none" /\ \E k \in 1..Len(stored.items) :
                              stored.items[k].type \notin OperationTags) =>
        queue = <<>>
  /\ \A i \in 1..Len(flights) : \A k \in 1..Len(flights[i].body.changes) :
        flights[i].body.changes[k].type \in OperationTags

\* C22: subscribeSyncStatus adds the listener and calls it at once with the
\* current status; a status change whose notification leaves the listener
\* set alone calls every subscribed listener exactly once, in subscription
\* order; and after every step the status each subscribed listener was last
\* called with is the one getSyncStatus returns.
SubscribersSeeEveryStatus ==
  [][ /\ \A l \in Listeners :
           (enabled /\ dbSubscribeSyncStatus(l)) =>
              /\ l \in Range(listeners')
              /\ received'[l] = status
      /\ (status' # status /\ listeners' = listeners) => notified' = listeners
      /\ \A l \in Range(listeners') : received'[l] = getSyncStatus' ]_vars

\* C22 witness: two listeners, subscribed b first, were both told of the
\* start of a request, b first.
BothToldOfSyncing ==
  /\ listeners = <<"b", "a">>
  /\ notified = <<"b", "a">>
  /\ status.state = "syncing"
  /\ received["a"] = status
  /\ received["b"] = status

\* C23: whatever a listener subscribes or unsubscribes while a status change
\* is being notified, every listener that was subscribed when the
\* notification began is called exactly once by it.
ReentrantNotifyReachesAll ==
  [][status' # status =>
       \A l \in Range(listeners) :
          Cardinality({k \in 1..Len(notified') : notified'[k] = l}) = 1]_vars

\* C24: with sync configured off, for the lifetime of the process
\* getSyncStatus returns {disabled, pending 0}; no operation is appended,
\* nothing is persisted, no timer is scheduled and no request is started,
\* whatever is saved or triggered; and a listener is called only by
\* the subscribeSyncStatus call that passes it, once, with that status.
DisabledStaysDisabled ==
  /\ [](~enabled =>
          /\ getSyncStatus = createDisabledSyncStatus
          /\ getSyncStatus.state = "disabled"
          /\ getSyncStatus.pending = 0
          /\ queue = <<>>
          /\ appended = 0
          /\ stored = MissingItem
          /\ ~syncTimer
          /\ timeouts = <<>>
          /\ flights = <<>>
          /\ listeners = <<>>
          /\ notified = <<>>)
  /\ [][~enabled =>
          /\ ~enabled'
          /\ \A l \in Listeners :
                received'[l] # received[l] =>
                   /\ dbSubscribeSyncStatus(l)
                   /\ received'[l] = createDisabledSyncStatus]_vars

\* C24 witness: with sync off, a record was saved while online and a listener
\* has been given the disabled status.
SavedWithSyncOff ==
  /\ ~enabled
  /\ local # {}
  /\ lastCall = "resolved"
  /\ online
  /\ received["a"] = createDisabledSyncStatus
  /\ received["b"] = NoStatus

\* C25: an append whose setItem throws still resolves the call, extends the
\* in-memory log by the operation, counts it in pending and leaves the
\* persisted queue as it was; an operation in memory that the persisted queue
\* lacks is carried by every request started while it is pending and, short
\* of a reload, leaves the log only with the success of a request that
\* carried it; and a write that succeeds stores the whole in-memory log.
PersistFailureNonFatal ==
  [][ /\ (appended' = appended + 1 /\ writeFailures' = writeFailures + 1) =>
            /\ lastCall' = "resolved"
            /\ Len(queue') = Len(queue) + 1
            /\ queueIds' = Append(queueIds, appended')
            /\ status'.pending = Len(queue')
            /\ stored' = stored
      /\ (TimerFires /\ flights' # flights) =>
            (Range(queueIds) \ Range(storedIds))
               \subseteq Range(flights'[Len(flights')].ids)
      /\ \A n \in Range(queueIds) \ Range(storedIds) :
            n \notin Range(queueIds') =>
               \/ Restart
               \/ \E i \in 1..Len(flights) :
                     FlushSucceeds(i) /\ n \in Range(flights[i].ids)
      /\ (lastWrite' = "ok" /\ queue' # queue) =>
            /\ stored' = ArrayItem(queue')
            /\ storedIds' = queueIds' ]_vars

\* C26: when a request with batch B fails, the log still begins with the
\* operations of B, the same appends with the same content in the same
\* order; and the batch of every request is the log as it stands when the
\* request starts, so the next attempt sends B followed by whatever was
\* appended since.
RetryReplaysPending ==
  [][ /\ \A i \in 1..Len(flights) :
           FlushFails(i) =>
              /\ Len(queue') >= Len(flights[i].batch)
              /\ SubSeq(queue', 1, Len(flights[i].batch)) = flights[i].batch
              /\ SubSeq(queueIds', 1, Len(flights[i].ids)) = flights[i].ids
              /\ SubSeq(StringifyOps(queue'), 1, Len(flights[i].batch))
                    = flights[i].body.changes
      /\ (TimerFires /\ flights' # flights) =>
            /\ flights'[Len(flights')].batch = queue
            /\ flights'[Len(flights')].ids = queueIds
            /\ flights'[Len(flights')].body.changes = StringifyOps(queue) ]_vars

\* C27: no step of a flush, the start of a request, its success or its
\* failure, for a first attempt or a retry, changes the local records.
FlushLeavesLocalAlone ==
  [][(\/ TimerFires
      \/ \E i \in 1..Len(flights) : FlushSucceeds(i)
      \/ \E i \in 1..Len(flights) : FlushFails(i)) => local' = local]_vars

\* C27 witness: both appended operations were acknowledged by successful
\* requests and the saved record is still in the local store.
FlushedWithRecordKept ==
  /\ local # {}
  /\ acked = {1, 2}
  /\ queue = <<>>
  /\ status.state = "idle"
  /\ status.lastSyncedAt = 2

AppendFollowsLocalWrite ==
  [][appended' = appended + 1 =>
        /\ MutationCalls
        /\ lastCall' = "resolved"
        /\ Len(queue') = Len(queue) + 1
        /\ queueIds' = Append(queueIds, appended')
        /\ local' = LocalWriteOf(local, queue'[Len(queue')])]_vars

\* C29 witness: a record was saved and then deleted; the log holds the add
\* and the delete in that order and the local store is empty.
SavedThenDeleted ==
  /\ lastCall = "resolved"
  /\ Len(queue) = 2
  /\ queue[1].type = "add"
  /\ queue[2].type = "delete"
  /\ local = {}

\* C30: a request is started only while connectivity is on; a step that ends
\* with connectivity off adds no timeout; a timeout that fires with
\* connectivity off and operations pending starts no request and leaves the
\* log and the persisted queue as they were, with state queued and pending
\* equal to the length of the log.
NothingSentOffline ==
  [][ /\ Len(flights') > Len(flights) => (online /\ online')
      /\ ~online' => (Len(timeouts') <= Len(timeouts) /\ (syncTimer' => syncTimer))
      /\ (TimerFires /\ ~online /\ Len(queue) > 0) =>
            /\ flights' = flights
            /\ queue' = queue
            /\ stored' = stored
            /\ timeouts' = Tail(timeouts)
            /\ status'.state = "queued"
            /\ status'.pending = Len(queue) ]_vars

\* C30 witness: connectivity is off with an operation pending after a
\* successful flush; no timeout is pending and no request is outstanding.
PendingOfflineNothingScheduled ==
  /\ ~online
  /\ Len(queue) = 1
  /\ acked # {}
  /\ status.state = "queued"
  /\ status.lastSyncedAt # NoTime
  /\ ~syncTimer
  /\ timeouts = <<>>
  /\ flights = <<>>

\* C31: every bulkDelete operation in the log or in a request has a
\* non-empty id list, and a bulk delete called with an empty id list appends
\* nothing, writes nothing, leaves the status as it was and schedules no
\* timeout and no request.
BulkDeleteNeverEmpty ==
  /\ [](/\ \A k \in 1..Len(queue) :
             queue[k].type = "bulkDelete" => Len(queue[k].ids) > 0
        /\ \A i \in 1..Len(flights) : \A k \in 1..Len(flights[i].batch) :
             flights[i].batch[k].type = "bulkDelete" =>
                Len(flights[i].body.changes[k].ids) > 0)
  /\ [][bulkDeleteCalculations(<<>>) =>
          /\ queue' = queue
          /\ appended' = appended
          /\ stored' = stored
          /\ status' = status
          /\ syncTimer' = syncTimer
          /\ timeouts' = timeouts
          /\ flights' = flights]_vars

\* C31 witness: a call has resolved while online and nothing was ever
\* appended: the call was a bulk delete of an empty list.
EmptyBulkDeleteResolved ==
  /\ lastCall = "resolved"
  /\ appended = 0
  /\ online
  /\ status.state = "idle"
  /\ ~syncTimer

\* C32: with two tabs writing the queue under one key, the persisted queue
\* holds every operation that is in either tab's log and has not been carried
\* by a successful request.
SharedKeyKeepsBothLogs ==
  ((Range(queueIds) \cup Range(peerIds)) \ acked) \subseteq Range(storedIds)

\* C33: once a flush has succeeded, lastSyncedAt stays set and never decreases
\* for the rest of the engine's life: no append, failed flush, offline check or
\* empty-queue flush clears or lowers it.
SyncedAtNeverCleared ==
  [][status.lastSyncedAt # NoTime =>
        /\ status'.lastSyncedAt # NoTime
        /\ status'.lastSyncedAt >= status.lastSyncedAt]_vars

\* C33 witness: a flush has failed after an earlier one succeeded, and the
\* error status still carries the time of the success.
FailedAfterSyncKeepsTime ==
  /\ status.state = "error"
  /\ acked # {}
  /\ status.lastSyncedAt # NoTime

\* C34: the status carries lastError exactly when its state is error: a failed
\* flush publishes state error with the failure's message, and every other
\* step that changes the status publishes one without lastError.
ErrorTextOnlyInErrorState ==
  /\ []((status.lastError # NoError) <=> (status.state = "error"))
  /\ [][ /\ (\E i \in 1..Len(flights) : FlushFails(i)) =>
               /\ status'.state = "error"
               /\ status'.lastError \in FailureMessages
         /\ (status' # status /\ ~\E i \in 1..Len(flights) : FlushFails(i)) =>
               status'.lastError = NoError ]_vars

\* C34 witness: a request for two pending operations was refused by the
\* server, and the status names the refusal.
RefusedWithTwoPending ==
  /\ status.state = "error"
  /\ status.pending = 2
  /\ status.lastError = "Sync failed with status 500"
  /\ flights = <<>>

\* C35: in the local store a resolved deleteCalculation(id) removes the one
\* record with that id and a resolved bulkDeleteCalculations(ids) removes the
\* records whose ids are listed; every other record stays as it was, no record
\* appears, and an empty list changes nothing. The store holds one record for
\* an id at most.
DeletesRemoveExactlyNamed ==
  /\ [](\A r1, r2 \in local : r1.id = r2.id => r1 = r2)
  /\ [][ /\ \A id \in StoreIds :
                (dbDeleteCalculation(id) /\ lastCall' = "resolved") =>
                  /\ local' \subseteq local
                  /\ \A r \in local : (r \in local') <=> (r.id # id)
         /\ \A ids \in StoreIdLists :
                (dbBulkDeleteCalculations(ids) /\ lastCall' = "resolved") =>
                  /\ local' \subseteq local
                  /\ \A r \in local :
                       (r \in local') <=> (\A k \in 1..Len(ids) : r.id # ids[k])
         /\ dbBulkDeleteCalculations(<<>>) => local' = local ]_vars

\* C35 witness: a read returned three records; since then the first two have
\* been deleted and the third is in the store as it was read.
OneOfThreeKept ==
  /\ ~enabled
  /\ lastCall = "resolved"
  /\ {listed[k].id : k \in 1..Len(listed)} = {"id-1", "id-2", "id-3"}
  /\ {r.id : r \in local} = {"id-3"}
  /\ local \subseteq {listed[k] : k \in 1..Len(listed)}

\* C36: a read is answered by the local store and touches nothing of the
\* engine: whatever the queue holds, listCalculations hands the caller every
\* record of the local store, each once, ordered by createdAt descending, and
\* the queue, the persisted queue, the status, the timer, the requests in
\* flight and the local store are as before.
ReadsLocalOnly ==
  [][listCalculations =>
       /\ UNCHANGED <<queue, queueIds, stored, storedIds, status, syncTimer,
                      timeouts, flights, appended, local, notified>>
       /\ lastCall' = "resolved" =>
            /\ Len(listed') = Cardinality(local)
            /\ {listed'[k] : k \in 1..Len(listed')} = local
            /\ \A j, k \in 1..Len(listed') :
                 j < k => listed'[j].createdAt >= listed'[k].createdAt]_vars

\* C36 witness: the caller holds the two saved records, the newer first, while
\* a request for the second is outstanding after the first was accepted.
ReadNewestFirstWhileSyncing ==
  /\ Len(listed) = 2
  /\ listed[1].id = "id-1"
  /\ listed[1].createdAt = 101
  /\ listed[2].createdAt = 100
  /\ acked # {}
  /\ status.state = "syncing"
  /\ Len(flights) = 1

====
